---- MODULE Spec2Model ----
(***************************************************************************)
(* Model of the two extractor scripts of combine-mokuro-jsons:             *)
(*   combine-mokuro-jsons.py  (flat variant, os.listdir('.'))              *)
(*   process-parent-dir.py    (recursive variant, os.walk('.'))            *)
(* Strings are sequences of Unicode code points, so that sorting, path     *)
(* manipulation and the regular expression are computed, not assumed.      *)
(***************************************************************************)
EXTENDS Integers, Sequences, FiniteSets, TLC

(***************************************************************************)
(* Bounds of the model.                                                    *)
(***************************************************************************)
\* at most this many files exist in the scanned tree
MaxFiles == 2
\* strings handed to contains_japanese in SpecClassify have at most this length
MaxLen == 2

(***************************************************************************)
(* String literals of the scripts, as code point sequences.                *)
(***************************************************************************)
\* ".json"
DotJson == <<46, 106, 115, 111, 110>>
\* ".txt"
DotTxt == <<46, 116, 120, 116>>
\* "root_volume"
RootVolume == <<114, 111, 111, 116, 95, 118, 111, 108, 117, 109, 101>>
\* "combined_japanese_text.txt", the value the scripts ship with
DefaultOutputFilename ==
  <<99, 111, 109, 98, 105, 110, 101, 100, 95, 106, 97, 112, 97, 110, 101,
    115, 101, 95, 116, 101, 120, 116, 46, 116, 120, 116>>
\* "out.json", a configured output name that is itself a .json file
JsonOutputFilename == <<111, 117, 116, 46, 106, 115, 111, 110>>
\* the values OUTPUT_FILENAME is configured with in the model
OutputFilenames == {DefaultOutputFilename, JsonOutputFilename}

(***************************************************************************)
(* Python str operations.                                                  *)
(***************************************************************************)
\* a < b for Python str: lexicographic by code point
StrLess(a, b) ==
  \E k \in 1..(Len(b)) :
    /\ k <= Len(a) + 1
    /\ \A j \in 1..(k - 1) : a[j] = b[j]
    /\ (k = Len(a) + 1 \/ a[k] < b[k])

\* str.endswith(suffix)
EndsWith(s, suffix) ==
  /\ Len(s) >= Len(suffix)
  /\ SubSeq(s, Len(s) - Len(suffix) + 1, Len(s)) = suffix

\* list.sort() on a list of str, as an insertion sort
RECURSIVE InsertSorted(_, _)
InsertSorted(x, sorted) ==
  IF sorted = <<>> THEN <<x>>
  ELSE IF StrLess(x, Head(sorted)) THEN <<x>> \o sorted
  ELSE <<Head(sorted)>> \o InsertSorted(x, Tail(sorted))

RECURSIVE SortStrs(_)
SortStrs(list) ==
  IF list = <<>> THEN <<>>
  ELSE InsertSorted(list[Len(list)], SortStrs(SubSeq(list, 1, Len(list) - 1)))

(***************************************************************************)
(* posixpath functions used by the recursive variant.                      *)
(***************************************************************************)
\* p.rfind('/') + 1
RFindSlash(p) ==
  LET I == {i \in 1..Len(p) : p[i] = 47}
  IN IF I = {} THEN 0 ELSE CHOOSE i \in I : \A j \in I : j <= i

\* os.path.join(a, b)
join(a, b) ==
  IF b # <<>> /\ b[1] = 47 THEN b
  ELSE IF a = <<>> \/ a[Len(a)] = 47 THEN a \o b
  ELSE a \o <<47>> \o b

\* os.path.basename(p)
basename(p) == SubSeq(p, RFindSlash(p) + 1, Len(p))

RECURSIVE RStripSlash(_)
RStripSlash(h) ==
  IF h # <<>> /\ h[Len(h)] = 47 THEN RStripSlash(SubSeq(h, 1, Len(h) - 1)) ELSE h

\* os.path.dirname(p)
dirname(p) ==
  LET head == SubSeq(p, 1, RFindSlash(p))
  IN IF head # <<>> /\ (\E i \in 1..Len(head) : head[i] # 47)
     THEN RStripSlash(head) ELSE head

\* p.split('/')
RECURSIVE SplitSlash(_)
SplitSlash(p) ==
  LET I == {i \in 1..Len(p) : p[i] = 47}
  IN IF I = {} THEN <<p>>
     ELSE LET i == CHOOSE k \in I : \A j \in I : k <= j
          IN <<SubSeq(p, 1, i - 1)>> \o SplitSlash(SubSeq(p, i + 1, Len(p)))

\* the new_comps loop of normpath
RECURSIVE NormComps(_, _, _)
NormComps(comps, new, initial) ==
  IF comps = <<>> THEN new
  ELSE LET c == Head(comps)
           rest == Tail(comps)
       IN IF c = <<>> \/ c = <<46>> THEN NormComps(rest, new, initial)
          ELSE IF \/ c # <<46, 46>>
                  \/ (initial = 0 /\ new = <<>>)
                  \/ (new # <<>> /\ new[Len(new)] = <<46, 46>>)
               THEN NormComps(rest, Append(new, c), initial)
          ELSE IF new # <<>>
               THEN NormComps(rest, SubSeq(new, 1, Len(new) - 1), initial)
          ELSE NormComps(rest, new, initial)

\* '/'.join(comps)
RECURSIVE JoinSlash(_)
JoinSlash(comps) ==
  IF comps = <<>> THEN <<>>
  ELSE IF Len(comps) = 1 THEN comps[1]
  ELSE comps[1] \o <<47>> \o JoinSlash(Tail(comps))

\* os.path.normpath(p)
normpath(p) ==
  IF p = <<>> THEN <<46>>
  ELSE LET initial == IF p[1] # 47 THEN 0
                      ELSE IF Len(p) >= 2 /\ p[2] = 47 /\ ~(Len(p) >= 3 /\ p[3] = 47)
                           THEN 2 ELSE 1
           body == JoinSlash(NormComps(SplitSlash(p), <<>>, initial))
           out == [i \in 1..initial |-> 47] \o body
       IN IF out = <<>> THEN <<46>> ELSE out

(***************************************************************************)
(* contains_japanese: re.search with a three-range character class.        *)
(***************************************************************************)
\* the character class [\u3040-\u309F\u30A0-\u30FF\u4E00-\u9FFF]
InClass(c) ==
  \/ (12352 <= c /\ c <= 12447)
  \/ (12448 <= c /\ c <= 12543)
  \/ (19968 <= c /\ c <= 40959)

\* re.search: position (1-based) of the leftmost match from i on; 0 is None
RECURSIVE SearchFrom(_, _)
SearchFrom(text, i) ==
  IF i > Len(text) THEN 0
  ELSE IF InClass(text[i]) THEN i
  ELSE SearchFrom(text, i + 1)

\* re.match: anchored at the start of the string
contains_japanese_match(text) ==
  IF text # <<>> /\ InClass(text[1]) THEN 1 ELSE 0

\* contains_japanese(text): the match (its position) or None (0)
contains_japanese(text) == SearchFrom(text, 1)

\* truthiness of a match object / None
Truthy(m) == m # 0

(***************************************************************************)
(* The inputs of a run: JSON documents and the scanned tree.               *)
(***************************************************************************)
\* an element of a "lines" array: a JSON string, or a JSON number
Str(cps) == [str |-> TRUE, cps |-> cps]
Num == [str |-> FALSE, cps |-> <<>>]

\* hiragana KO
LineKo == Str(<<12371>>)
\* "H" followed by katakana KA: mixed script
LineHKa == Str(<<72, 12459>>)
\* kanji NICHI followed by "!"
LineNichi == Str(<<26085, 33>>)
\* "Hi"
LineHi == Str(<<72, 105>>)
\* ""
LineEmpty == Str(<<>>)

\* a block: a JSON object, with or without a "lines" key, or a JSON number
Block(lines) == [obj |-> TRUE, hasLines |-> TRUE, lines |-> lines]
BlockNoLines == [obj |-> TRUE, hasLines |-> FALSE, lines |-> <<>>]

\* what opening and json.load-ing a file gives:
\*   "unreadable" open()/read raises OSError     "malformed" json.JSONDecodeError
\*   "object" a JSON object                      "scalar" a JSON number or null
Doc(kind, hasBlocks, blocks) ==
  [kind |-> kind, hasBlocks |-> hasBlocks, blocks |-> blocks]

DocTwoBlocks == Doc("object", TRUE, <<Block(<<LineKo, LineHi>>), Block(<<LineHKa, LineKo>>)>>)
DocNoBlocks == Doc("object", FALSE, <<>>)
DocNoLines == Doc("object", TRUE, <<BlockNoLines, Block(<<LineEmpty, LineHKa>>)>>)
DocMalformed == Doc("malformed", FALSE, <<>>)
DocUnreadable == Doc("unreadable", FALSE, <<>>)
DocNumberInLines == Doc("object", TRUE, <<Block(<<LineKo, Num, LineNichi>>)>>)
DocScalar == Doc("scalar", FALSE, <<>>)

Docs == {DocTwoBlocks, DocNoBlocks, DocNoLines, DocMalformed,
         DocUnreadable, DocNumberInLines, DocScalar}

\* directories of the tree, as component lists below the scan root:
\* ".", "./v", "./u/v", "./w/a"
Dirs == {<<>>, <<<<118>>>>, <<<<117>>, <<118>>>>, <<<<119>>, <<97>>>>}
\* "a.json"
AJson == <<97, 46, 106, 115, 111, 110>>
\* the .json file names
JsonNames == {AJson, JsonOutputFilename}
\* "n.txt", a file the scan must pass over
OtherName == <<110, 46, 116, 120, 116>>
\* the places a file may be at: "a.json" in every directory, "out.json" in
\* "." and "./u/v", "n.txt" in "."
Slots ==
  [dir : Dirs, name : {AJson}]
  \cup [dir : {<<>>, <<<<117>>, <<118>>>>}, name : {JsonOutputFilename}]
  \cup {[dir |-> <<>>, name |-> OtherName]}

\* the trees scanned: at most MaxFiles files, each holding some document
Trees ==
  UNION {[S -> Docs] : S \in {T \in SUBSET Slots : Cardinality(T) <= MaxFiles}}

\* the dirpath os.walk('.') yields for a directory: top, then join(parent, name)
RECURSIVE DirPath(_)
DirPath(dir) ==
  IF dir = <<>> THEN <<46>>
  ELSE join(DirPath(SubSeq(dir, 1, Len(dir) - 1)), dir[Len(dir)])

\* all orders in which the file system may enumerate a set of entries
Enumerations(S) ==
  {e \in [1..Cardinality(S) -> S] : \A i, j \in DOMAIN e : e[i] = e[j] => i = j}

EmptyMap == [k \in {} |-> <<>>]

VARIABLES
  script,                 \* "flat": combine-mokuro-jsons.py, "recursive": process-parent-dir.py
  CREATE_FILE_PER_VOLUME, \* configuration flag of the recursive script
  OUTPUT_FILENAME,        \* configuration: the output file name
  tree,                   \* the scanned directory tree: slot -> document
  pc,                     \* position of process_files
  json_filepaths,         \* the sorted list of discovered paths (json_filenames in the flat script)
  idx,                    \* position of the for loop over json_filepaths
  volume_data,            \* recursive: volume name -> retained lines
  all_japanese_lines,     \* flat: retained lines; recursive: the consolidated list
  pending,                \* per-volume mode: sorted(volume_data.items()) still to write
  outfiles,               \* output files in the working directory: name -> chunks written
  opened,                 \* paths handed to open(..., 'r'), in order
  warnings,               \* per-file warnings printed, in order
  writeLog,               \* open(..., 'w') attempts, in order, with their outcome
  text,                   \* SpecClassify: the string handed to contains_japanese
  verdict                 \* SpecClassify: what contains_japanese returned

vars == <<script, CREATE_FILE_PER_VOLUME, OUTPUT_FILENAME, tree, pc, json_filepaths,
          idx, volume_data, all_japanese_lines, pending, outfiles, opened, warnings,
          writeLog, text, verdict>>

config == <<script, CREATE_FILE_PER_VOLUME, OUTPUT_FILENAME, tree>>

(***************************************************************************)
(* The body of the try block: walking data['blocks'][...]['lines'].        *)
(* A walk returns the lines appended so far and whether it raised.         *)
(***************************************************************************)
\* the walk with a duplicate check: a line already collected from the file is dropped
RECURSIVE WalkLinesDedup(_, _)
WalkLinesDedup(lines, acc) ==
  IF lines = <<>> THEN [lines |-> acc, raised |-> FALSE]
  ELSE LET line == Head(lines)
       IN IF ~line.str THEN [lines |-> acc, raised |-> TRUE]
          ELSE IF Truthy(contains_japanese(line.cps))
                  /\ ~(\E i \in DOMAIN acc : acc[i] = line)
               THEN WalkLinesDedup(Tail(lines), Append(acc, line))
          ELSE WalkLinesDedup(Tail(lines), acc)

\* for line in block['lines']: if contains_japanese(line): append
RECURSIVE WalkLines(_, _)
WalkLines(lines, acc) ==
  IF lines = <<>> THEN [lines |-> acc, raised |-> FALSE]
  ELSE LET line == Head(lines)
       IN IF ~line.str THEN [lines |-> acc, raised |-> TRUE]
          ELSE IF Truthy(contains_japanese(line.cps))
               THEN WalkLines(Tail(lines), Append(acc, line))
          ELSE WalkLines(Tail(lines), acc)

\* for block in data['blocks']: if 'lines' in block and block['lines']: ...
RECURSIVE WalkBlocks(_, _)
WalkBlocks(blocks, acc) ==
  IF blocks = <<>> THEN [lines |-> acc, raised |-> FALSE]
  ELSE LET block == Head(blocks)
       IN IF ~block.obj THEN [lines |-> acc, raised |-> TRUE]
          ELSE IF block.hasLines /\ block.lines # <<>>
               THEN LET r == WalkLines(block.lines, acc)
                    IN IF r.raised THEN r ELSE WalkBlocks(Tail(blocks), r.lines)
          ELSE WalkBlocks(Tail(blocks), acc)

\* if 'blocks' in data and data['blocks']: ...
WalkData(doc) ==
  IF doc.kind = "scalar" THEN [lines |-> <<>>, raised |-> TRUE]
  ELSE IF doc.hasBlocks /\ doc.blocks # <<>> THEN WalkBlocks(doc.blocks, <<>>)
  ELSE [lines |-> <<>>, raised |-> FALSE]

\* the try block with the file's lines dropped when the walk raises
ReadFileRollback(doc) ==
  IF doc.kind = "unreadable" THEN [lines |-> <<>>, warn |-> "error"]
  ELSE IF doc.kind = "malformed" THEN [lines |-> <<>>, warn |-> "decode"]
  ELSE LET r == WalkData(doc)
       IN IF r.raised THEN [lines |-> <<>>, warn |-> "error"]
          ELSE [lines |-> r.lines, warn |-> "none"]

\* with open(...) as f: data = json.load(f); walk.  The outcome of the try
\* block for one file: the lines appended, and the except clause taken.
ReadFile(doc) ==
  IF doc.kind = "unreadable" THEN [lines |-> <<>>, warn |-> "error"]
  ELSE IF doc.kind = "malformed" THEN [lines |-> <<>>, warn |-> "decode"]
  ELSE LET r == WalkData(doc)
       IN [lines |-> r.lines, warn |-> IF r.raised THEN "error" ELSE "none"]

\* volume_data[volume_name].append(line) for each line (a defaultdict(list))
Extend(vd, key, lines) ==
  IF lines = <<>> THEN vd
  ELSE IF key \in DOMAIN vd THEN [vd EXCEPT ![key] = @ \o lines]
  ELSE [k \in DOMAIN vd \cup {key} |-> IF k = key THEN lines ELSE vd[k]]

\* the volume named by the whole relative directory instead of its last component
VolumeNameFullDir(filepath) ==
  LET volume_name == normpath(dirname(filepath))
  IN IF volume_name = <<>> \/ volume_name = <<46>> THEN RootVolume ELSE volume_name

\* volume_name of a path (recursive script)
VolumeName(filepath) ==
  LET volume_name == basename(normpath(dirname(filepath)))
  IN IF volume_name = <<>> \/ volume_name = <<46>> THEN RootVolume ELSE volume_name

(***************************************************************************)
(* Discovery.                                                              *)
(***************************************************************************)
\* full_path = os.path.join(dirpath, filename)
SlotPath(s) == join(DirPath(s.dir), s.name)

\* the file a path names, relative to the working directory
Resolve(path) ==
  CHOOSE s \in DOMAIN tree :
    IF script = "flat" THEN s.dir = <<>> /\ s.name = path ELSE SlotPath(s) = path

\* flat: [f for f in os.listdir('.') if f.endswith('.json')]
\* recursive: the full paths of the os.walk('.') entries that end with '.json'
Found ==
  IF script = "flat"
  THEN {s.name : s \in {t \in DOMAIN tree : t.dir = <<>> /\ EndsWith(t.name, DotJson)}}
  ELSE {SlotPath(s) : s \in {t \in DOMAIN tree : EndsWith(t.name, DotJson)}}

\* the sort left out: the list stays in enumeration order
SortPathsOmitted(list) == list

\* json_filenames.sort() / json_filepaths.sort()
SortPaths(list) == SortStrs(list)

Discover ==
  /\ pc = "discover"
  /\ \E e \in Enumerations(Found) :
       LET sorted == SortPaths(e)
       IN /\ json_filepaths' = sorted
          /\ IF sorted = <<>>
             THEN pc' = "done" /\ idx' = 0
             ELSE pc' = "loop" /\ idx' = 1
  /\ UNCHANGED <<config, volume_data, all_japanese_lines, pending, outfiles, opened,
                 warnings, writeLog, text, verdict>>

\* flat script only: os.listdir('.') raises, the except clause returns
DiscoverFail ==
  /\ pc = "discover"
  /\ script = "flat"
  /\ pc' = "done"
  /\ warnings' = Append(warnings, [path |-> <<46>>, kind |-> "listdir"])
  /\ UNCHANGED <<config, json_filepaths, idx, volume_data, all_japanese_lines, pending,
                 outfiles, opened, writeLog, text, verdict>>

(***************************************************************************)
(* The loop over the discovered paths.                                     *)
(***************************************************************************)
\* the comparison with the whole path instead of the file name
IsOwnOutputWholePath(path) == path = OUTPUT_FILENAME

\* filename == OUTPUT_FILENAME / os.path.basename(filepath) == OUTPUT_FILENAME
IsOwnOutput(path) ==
  IF script = "flat" THEN path = OUTPUT_FILENAME
  ELSE basename(path) = OUTPUT_FILENAME

\* the loop ends at the first file that gave a warning
AdvanceStopOnWarning ==
  /\ idx' = idx + 1
  /\ pc' = IF idx = Len(json_filepaths) \/ warnings' # warnings THEN "collected" ELSE "loop"

\* the for loop moves on to the next path, or ends
Advance ==
  /\ idx' = idx + 1
  /\ pc' = IF idx = Len(json_filepaths) THEN "collected" ELSE "loop"

\* if <own output>: continue
SkipOwnOutput ==
  /\ pc = "loop"
  /\ IsOwnOutput(json_filepaths[idx])
  /\ Advance
  /\ UNCHANGED <<config, json_filepaths, volume_data, all_japanese_lines, pending,
                 outfiles, opened, warnings, writeLog, text, verdict>>

\* what one pass of the try block does to the aggregate and the warnings
FileEffect(path, r) ==
  /\ opened' = Append(opened, path)
  /\ warnings' = IF r.warn = "none" THEN warnings
                 ELSE Append(warnings, [path |-> path, kind |-> r.warn])
  /\ IF script = "flat"
     THEN /\ all_japanese_lines' = all_japanese_lines \o r.lines
          /\ UNCHANGED volume_data
     ELSE /\ volume_data' = Extend(volume_data, VolumeName(path), r.lines)
          /\ UNCHANGED all_japanese_lines

\* the try/except of one iteration
ProcessFile ==
  /\ pc = "loop"
  /\ ~IsOwnOutput(json_filepaths[idx])
  /\ FileEffect(json_filepaths[idx], ReadFile(tree[Resolve(json_filepaths[idx])]))
  /\ Advance
  /\ UNCHANGED <<config, json_filepaths, pending, outfiles, writeLog, text, verdict>>

(***************************************************************************)
(* Writing.                                                                *)
(***************************************************************************)
\* f.write(line + '\n') for each line
Chunks(lines) == [i \in DOMAIN lines |-> lines[i].cps \o <<10>>]

Put(files, name, content) ==
  [n \in DOMAIN files \cup {name} |-> IF n = name THEN content ELSE files[n]]

\* outcomes of one "with open(name, 'w') ...: for line in lines: f.write(...)":
\* Len(lines) + 1: no exception; -1: open raised; k in 0..Len(lines)-1: a write
\* raised after k lines reached the file
Outcomes(lines) == (-1)..(Len(lines) + 1) \ {Len(lines)}

WriteFile(name, lines, k) ==
  /\ writeLog' = Append(writeLog, [file |-> name, ok |-> (k = Len(lines) + 1)])
  /\ outfiles' = IF k = -1 THEN outfiles
                 ELSE IF k = Len(lines) + 1 THEN Put(outfiles, name, Chunks(lines))
                 ELSE Put(outfiles, name, Chunks(SubSeq(lines, 1, k)))

\* the early return left out: an empty OUTPUT_FILENAME is written
NoTextFoundStillWrites ==
  /\ pc = "collected"
  /\ script = "recursive"
  /\ DOMAIN volume_data = {}
  /\ pc' = "done"
  /\ WriteFile(OUTPUT_FILENAME, <<>>, 1)
  /\ UNCHANGED <<config, json_filepaths, idx, volume_data, all_japanese_lines, pending,
                 opened, warnings, text, verdict>>

\* recursive script: if not volume_data: return
NoTextFound ==
  /\ pc = "collected"
  /\ script = "recursive"
  /\ DOMAIN volume_data = {}
  /\ pc' = "done"
  /\ UNCHANGED <<config, json_filepaths, idx, volume_data, all_japanese_lines, pending,
                 outfiles, opened, warnings, writeLog, text, verdict>>

\* flat script: the single write of OUTPUT_FILENAME
WriteCombined ==
  /\ pc = "collected"
  /\ script = "flat"
  /\ \E k \in Outcomes(all_japanese_lines) :
       WriteFile(OUTPUT_FILENAME, all_japanese_lines, k)
  /\ pc' = "done"
  /\ UNCHANGED <<config, json_filepaths, idx, volume_data, all_japanese_lines, pending,
                 opened, warnings, text, verdict>>

\* the keys in dict order (the order of the paths that filled them), not sorted
RECURSIVE FirstSeen(_, _, _)
FirstSeen(paths, seen, vd) ==
  IF paths = <<>> THEN seen
  ELSE LET k == VolumeName(Head(paths))
       IN IF k \in DOMAIN vd /\ ~(\E i \in DOMAIN seen : seen[i] = k)
          THEN FirstSeen(Tail(paths), Append(seen, k), vd)
          ELSE FirstSeen(Tail(paths), seen, vd)

KeysInDictOrder(vd) == FirstSeen(json_filepaths, <<>>, vd)

\* sorted(volume_data.keys()), and the key order of sorted(volume_data.items())
SortedKeys(vd) == SortStrs(CHOOSE e \in Enumerations(DOMAIN vd) : TRUE)

\* recursive script, per-volume mode: enter "for ... in sorted(volume_data.items())"
BeginVolumes ==
  /\ pc = "collected"
  /\ script = "recursive"
  /\ DOMAIN volume_data # {}
  /\ CREATE_FILE_PER_VOLUME
  /\ pending' = SortedKeys(volume_data)
  /\ pc' = "volumes"
  /\ UNCHANGED <<config, json_filepaths, idx, volume_data, all_japanese_lines, outfiles,
                 opened, warnings, writeLog, text, verdict>>

\* a failed write ends the loop over the volumes
AfterWriteAbort(k, lines) ==
  IF k = Len(lines) + 1 /\ Len(pending) > 1 THEN "volumes" ELSE "done"

\* the loop goes on to the next volume whatever the write did
AfterWrite(k, lines) == IF Len(pending) > 1 THEN "volumes" ELSE "done"

\* one iteration: write "<volume_name>.txt"
WriteVolume ==
  /\ pc = "volumes"
  /\ pending # <<>>
  /\ LET volume_name == Head(pending)
         lines == volume_data[volume_name]
     IN \E k \in Outcomes(lines) :
          /\ WriteFile(volume_name \o DotTxt, lines, k)
          /\ pc' = AfterWrite(k, lines)
  /\ pending' = Tail(pending)
  /\ UNCHANGED <<config, json_filepaths, idx, volume_data, all_japanese_lines, opened,
                 warnings, text, verdict>>

\* all_japanese_lines.extend(volume_data[volume_name]) over the sorted keys
RECURSIVE Consolidate(_, _)
Consolidate(keys, vd) ==
  IF keys = <<>> THEN <<>> ELSE vd[Head(keys)] \o Consolidate(Tail(keys), vd)

\* recursive script, consolidated mode: the single write of OUTPUT_FILENAME
WriteConsolidated ==
  /\ pc = "collected"
  /\ script = "recursive"
  /\ DOMAIN volume_data # {}
  /\ ~CREATE_FILE_PER_VOLUME
  /\ all_japanese_lines' = Consolidate(SortedKeys(volume_data), volume_data)
  /\ \E k \in Outcomes(all_japanese_lines') :
       WriteFile(OUTPUT_FILENAME, all_japanese_lines', k)
  /\ pc' = "done"
  /\ UNCHANGED <<config, json_filepaths, idx, volume_data, pending, opened, warnings,
                 text, verdict>>

(***************************************************************************)
(* Specification of a run of either script.                                *)
(***************************************************************************)
Init ==
  /\ script \in {"flat", "recursive"}
  /\ CREATE_FILE_PER_VOLUME \in BOOLEAN
  /\ script = "flat" => ~CREATE_FILE_PER_VOLUME
  /\ OUTPUT_FILENAME \in OutputFilenames
  /\ tree \in Trees
  /\ pc = "discover"
  /\ json_filepaths = <<>>
  /\ idx = 0
  /\ volume_data = EmptyMap
  /\ all_japanese_lines = <<>>
  /\ pending = <<>>
  /\ outfiles = EmptyMap
  /\ opened = <<>>
  /\ warnings = <<>>
  /\ writeLog = <<>>
  /\ text = <<>>
  /\ verdict = 0

Next ==
  \/ Discover
  \/ DiscoverFail
  \/ SkipOwnOutput
  \/ ProcessFile
  \/ NoTextFound
  \/ WriteCombined
  \/ BeginVolumes
  \/ WriteVolume
  \/ WriteConsolidated

Spec == Init /\ [][Next]_vars

(***************************************************************************)
(* Specification of contains_japanese alone, on bounded strings.           *)
(***************************************************************************)
\* "!", "1", "A" and the code points at and around the ends of the three ranges
CodePoints == {33, 49, 65, 12351, 12352, 12447, 12448, 12543, 12544,
               19967, 19968, 40959, 40960}

Strings == UNION {[1..n -> CodePoints] : n \in 0..MaxLen}

ClassifyInit ==
  /\ script = "flat"
  /\ CREATE_FILE_PER_VOLUME = FALSE
  /\ OUTPUT_FILENAME = DefaultOutputFilename
  /\ tree = EmptyMap
  /\ pc = "call"
  /\ json_filepaths = <<>>
  /\ idx = 0
  /\ volume_data = EmptyMap
  /\ all_japanese_lines = <<>>
  /\ pending = <<>>
  /\ outfiles = EmptyMap
  /\ opened = <<>>
  /\ warnings = <<>>
  /\ writeLog = <<>>
  /\ text \in Strings
  /\ verdict = 0

\* the call contains_japanese(text) returns
Classify ==
  /\ pc = "call"
  /\ verdict' = contains_japanese(text)
  /\ pc' = "returned"
  /\ UNCHANGED <<config, json_filepaths, idx, volume_data, all_japanese_lines,
                 pending, outfiles, opened, warnings, writeLog, text>>

ClassifyNext == Classify

SpecClassify == ClassifyInit /\ [][ClassifyNext]_vars

(***************************************************************************)
(* Vocabulary of the properties, stated on the tree and not on the paths   *)
(* the scripts compute.                                                    *)
(***************************************************************************)
\* U+3040..U+309F, U+30A0..U+30FF, U+4E00..U+9FFF
JapaneseCodePoints == (12352..12447) \cup (12448..12543) \cup (19968..40959)
HasJapanese(cps) == \E i \in DOMAIN cps : cps[i] \in JapaneseCodePoints
JapaneseLine(line) == HasJapanese(line.cps)

\* the .json files the running script scans
JsonFiles ==
  {s \in DOMAIN tree : s.name \in JsonNames /\ (script = "flat" => s.dir = <<>>)}
\* the candidate files: those not named like the configured output
Candidates == {s \in JsonFiles : s.name # OUTPUT_FILENAME}

ListdirFailed == \E i \in DOMAIN warnings : warnings[i].kind = "listdir"
NoIOFault == ~ListdirFailed /\ \A i \in DOMAIN writeLog : writeLog[i].ok

\* the document parses and has the blocks/lines shape
ValidDoc(d) ==
  /\ d.kind = "object"
  /\ \A b \in DOMAIN d.blocks :
       /\ d.blocks[b].obj
       /\ \A i \in DOMAIN d.blocks[b].lines : d.blocks[b].lines[i].str

\* the elements of all "lines" arrays of a document, in block and line order
RECURSIVE Flatten(_)
Flatten(blocks) ==
  IF blocks = <<>> THEN <<>>
  ELSE (IF Head(blocks).obj THEN Head(blocks).lines ELSE <<Num>>) \o Flatten(Tail(blocks))

\* the elements that precede the first one that is not a string
BeforeFailure(elems) ==
  LET bad == {i \in DOMAIN elems : ~elems[i].str}
  IN IF bad = {} THEN elems
     ELSE SubSeq(elems, 1, (CHOOSE i \in bad : \A j \in bad : i <= j) - 1)

\* the Japanese lines of a document up to its first failing element, in order
Retained(d) ==
  IF d.kind # "object" \/ ~d.hasBlocks THEN <<>>
  ELSE SelectSeq(BeforeFailure(Flatten(d.blocks)), JapaneseLine)

\* reading or walking the document raises something other than a decode error
RaisesOther(d) ==
  \/ d.kind \in {"unreadable", "scalar"}
  \/ d.kind = "object" /\ d.hasBlocks /\ BeforeFailure(Flatten(d.blocks)) # Flatten(d.blocks)

\* the volume of a file: its immediate parent directory, "root_volume" in the root
ExpectedKey(s) == IF s.dir = <<>> THEN RootVolume ELSE s.dir[Len(s.dir)]

\* the file the loop is at
Current == Resolve(json_filepaths[idx])

\* the loop stands at a candidate file
AtCandidate == pc = "loop" /\ Current.name # OUTPUT_FILENAME

\* this step appends exactly `lines` to the aggregate, under volume `key`
Appends(key, lines) ==
  IF script = "flat"
  THEN all_japanese_lines' = all_japanese_lines \o lines /\ volume_data' = volume_data
  ELSE /\ all_japanese_lines' = all_japanese_lines
       /\ DOMAIN volume_data \subseteq DOMAIN volume_data'
       /\ \A k \in DOMAIN volume_data' :
            volume_data'[k] = (IF k \in DOMAIN volume_data THEN volume_data[k] ELSE <<>>)
                              \o (IF k = key THEN lines ELSE <<>>)

\* the paths the loop has dealt with so far
Processed ==
  SubSeq(json_filepaths, 1, IF pc = "loop" THEN idx - 1 ELSE Len(json_filepaths))

\* what the loop collects from a list of paths
RECURSIVE Collect(_, _, _)
Collect(paths, vd, all) ==
  IF paths = <<>> THEN [vd |-> vd, all |-> all]
  ELSE LET p == Head(paths)
           r == ReadFile(tree[Resolve(p)])
       IN IF IsOwnOutput(p) THEN Collect(Tail(paths), vd, all)
          ELSE IF script = "flat" THEN Collect(Tail(paths), vd, all \o r.lines)
          ELSE Collect(Tail(paths), Extend(vd, VolumeName(p), r.lines), all)

\* the output files of a fault-free run whose file system enumerates in order e
RunOutput(e) ==
  LET sorted == SortPaths(e)
      agg == Collect(sorted, EmptyMap, <<>>)
  IN IF sorted = <<>> THEN EmptyMap
     ELSE IF script = "flat" THEN (OUTPUT_FILENAME :> Chunks(agg.all))
     ELSE IF DOMAIN agg.vd = {} THEN EmptyMap
     ELSE IF CREATE_FILE_PER_VOLUME
          THEN [f \in {k \o DotTxt : k \in DOMAIN agg.vd} |->
                  Chunks(agg.vd[SubSeq(f, 1, Len(f) - Len(DotTxt))])]
     ELSE (OUTPUT_FILENAME :> Chunks(Consolidate(SortedKeys(agg.vd), agg.vd)))

\* a set of strings as the ascending list
Ascending(S) ==
  CHOOSE e \in Enumerations(S) : \A i, j \in DOMAIN e : i < j => StrLess(e[i], e[j])

\* the files of a volume, in ascending order of their paths
FilesOfVolume(key) ==
  LET S == {s \in Candidates : ExpectedKey(s) = key}
  IN CHOOSE e \in Enumerations(S) :
       \A i, j \in DOMAIN e : i < j => StrLess(SlotPath(e[i]), SlotPath(e[j]))

RECURSIVE ConcatRetained(_)
ConcatRetained(slots) ==
  IF slots = <<>> THEN <<>> ELSE Retained(tree[Head(slots)]) \o ConcatRetained(Tail(slots))

ExpectedVolume(key) == ConcatRetained(FilesOfVolume(key))
ExpectedKeys == {k \in {ExpectedKey(s) : s \in Candidates} : ExpectedVolume(k) # <<>>}

RECURSIVE ConcatVolumes(_)
ConcatVolumes(keys) ==
  IF keys = <<>> THEN <<>> ELSE ExpectedVolume(Head(keys)) \o ConcatVolumes(Tail(keys))

(***************************************************************************)
(* C1.  With valid documents and no IO fault, the multiset of the lines    *)
(* written over all output files is the multiset of the lines of the       *)
(* candidate files' blocks that hold a Japanese code point.                *)
(***************************************************************************)
\* the places a string occurs at in the candidate files
InputOccurrences(l) ==
  UNION {UNION {{<<s, b, i>> : i \in {j \in DOMAIN tree[s].blocks[b].lines :
                                         tree[s].blocks[b].lines[j].cps = l}}
                : b \in DOMAIN tree[s].blocks}
         : s \in Candidates}

\* the places a string was written at, followed by a newline
OutputOccurrences(l) ==
  UNION {{<<f, i>> : i \in {j \in DOMAIN outfiles[f] : outfiles[f][j] = l \o <<10>>}}
         : f \in DOMAIN outfiles}

\* every string of the inputs, and every chunk written less its last code point
LineUniverse ==
  UNION {UNION {{tree[s].blocks[b].lines[i].cps : i \in DOMAIN tree[s].blocks[b].lines}
                : b \in DOMAIN tree[s].blocks}
         : s \in DOMAIN tree}
  \cup UNION {{SubSeq(outfiles[f][i], 1, Len(outfiles[f][i]) - 1) : i \in DOMAIN outfiles[f]}
              : f \in DOMAIN outfiles}

AllCandidatesValid == \A s \in Candidates : ValidDoc(tree[s])

\* C1: the written lines are, as a multiset, the Japanese input lines
C1_MultisetPreserved ==
  (pc = "done" /\ NoIOFault /\ AllCandidatesValid) =>
    \A l \in LineUniverse :
      Cardinality(OutputOccurrences(l)) =
        (IF HasJapanese(l) THEN Cardinality(InputOccurrences(l)) ELSE 0)

C1_Witness ==
  /\ pc = "done" /\ NoIOFault /\ AllCandidatesValid
  /\ script = "recursive" /\ CREATE_FILE_PER_VOLUME
  /\ Cardinality(DOMAIN outfiles) = 2
  /\ \E l \in LineUniverse : Cardinality(OutputOccurrences(l)) >= 3
  /\ \E l \in LineUniverse : ~HasJapanese(l) /\ l # <<>>

(***************************************************************************)
(* C2.  contains_japanese(s) is truthy exactly when s holds a code point   *)
(* of one of the three ranges.                                             *)
(***************************************************************************)
\* C2: truthy iff some code point is in the ranges; ASCII-only strings fail
C2_ContainsTest ==
  pc = "returned" =>
    /\ Truthy(verdict) <=> HasJapanese(text)
    /\ (\A i \in DOMAIN text : text[i] < 128) => ~Truthy(verdict)

C2_Witness ==
  /\ pc = "returned"
  /\ text = <<65, 12447>>
  /\ Truthy(verdict)

(***************************************************************************)
(* C3.  Recursive variant: the lines of a file go to the volume named by   *)
(* its immediate parent directory, "root_volume" for the scan root.        *)
(***************************************************************************)
\* C3: each step of the loop appends the file's lines under its parent's name only
C3_GroupedByParent ==
  [][(AtCandidate /\ script = "recursive") =>
       Appends(ExpectedKey(Current), Retained(tree[Current]))]_vars

C3_Witness ==
  /\ script = "recursive"
  /\ pc = "collected"
  /\ DOMAIN volume_data = {RootVolume, <<118>>}
  /\ \E s \in DOMAIN tree : s.dir = <<<<117>>, <<118>>>>

(***************************************************************************)
(* C4.  A file named like the configured output is never opened and adds   *)
(* nothing, wherever it lies.                                              *)
(***************************************************************************)
\* C4: no step opens a file named OUTPUT_FILENAME or collects lines at one
C4_SelfExclusion ==
  [][/\ \A i \in DOMAIN opened' : Resolve(opened'[i]).name # OUTPUT_FILENAME
     /\ (pc = "loop" /\ Current.name = OUTPUT_FILENAME) =>
          (opened' = opened /\ volume_data' = volume_data
           /\ all_japanese_lines' = all_japanese_lines)]_vars

C4_Witness ==
  /\ script = "recursive"
  /\ pc = "collected"
  /\ opened = <<>>
  /\ \E s \in DOMAIN tree :
       /\ s.name = OUTPUT_FILENAME /\ s.dir # <<>>
       /\ Retained(tree[s]) # <<>>

(***************************************************************************)
(* C5.  A file that is not valid JSON gets a warning and is passed over;   *)
(* the other files are processed as if it were absent.                     *)
(***************************************************************************)
\* C5: the aggregate is that of the processed paths without the malformed files
C5_DecodeIsolation ==
  (pc \in {"loop", "collected", "volumes", "done"} /\ ~ListdirFailed) =>
    LET WellFormed(p) == tree[Resolve(p)].kind # "malformed"
        MalformedCandidate(p) ==
          tree[Resolve(p)].kind = "malformed" /\ Resolve(p).name # OUTPUT_FILENAME
        NotOwn(p) == Resolve(p).name # OUTPUT_FILENAME
        IsDecode(w) == w.kind = "decode"
        expect == Collect(SelectSeq(Processed, WellFormed), EmptyMap, <<>>)
        bad == SelectSeq(Processed, MalformedCandidate)
    IN /\ volume_data = expect.vd
       /\ script = "flat" => all_japanese_lines = expect.all
       /\ SelectSeq(warnings, IsDecode) =
            [i \in DOMAIN bad |-> [path |-> bad[i], kind |-> "decode"]]
       /\ opened = SelectSeq(Processed, NotOwn)
       /\ pc # "loop" => Len(Processed) = Cardinality(JsonFiles)

C5_Witness ==
  /\ pc = "done"
  /\ Len(opened) = 2
  /\ warnings = <<[path |-> opened[1], kind |-> "decode"]>>
  /\ \E f \in DOMAIN outfiles : Len(outfiles[f]) = 3

(***************************************************************************)
(* C6.  The output of a fault-free run is the same for every order in      *)
(* which the file system enumerates the files.                             *)
(***************************************************************************)
\* C6: the files written are those of a run from any other enumeration order
C6_Determinism ==
  (pc = "done" /\ NoIOFault) =>
    \A e \in Enumerations(Found) : outfiles = RunOutput(e)

C6_Witness ==
  /\ pc = "done" /\ NoIOFault
  /\ script = "flat"
  /\ Len(opened) = 2
  /\ tree[Resolve(opened[1])] = DocTwoBlocks
  /\ tree[Resolve(opened[2])] = DocNoLines
  /\ Len(outfiles[OUTPUT_FILENAME]) = 4

(***************************************************************************)
(* C7.  When does a run end without attempting a write.                    *)
(***************************************************************************)
\* C7 as claimed: a finished run attempted no write exactly when the directory
\* read failed or no .json file was found, and then no output file exists
C7_OnlyDiscoveryEndsEarly ==
  pc = "done" =>
    /\ (writeLog = <<>>) <=> (ListdirFailed \/ JsonFiles = {})
    /\ writeLog = <<>> => DOMAIN outfiles = {}

\* C7 amended: the recursive script also ends without a write when no line was retained
C7_EarlyExits ==
  pc = "done" =>
    /\ (writeLog = <<>>) <=>
         \/ ListdirFailed
         \/ JsonFiles = {}
         \/ script = "recursive" /\ \A s \in Candidates : Retained(tree[s]) = <<>>
    /\ writeLog = <<>> => DOMAIN outfiles = {}

C7_Witness ==
  /\ pc = "done"
  /\ script = "recursive"
  /\ JsonFiles # {}
  /\ Candidates # {}
  /\ writeLog = <<>>

(***************************************************************************)
(* C8.  Recursive variant: order of the lines within a volume and of the   *)
(* volumes within the consolidated output.                                 *)
(***************************************************************************)
\* C8: volumes hold their files' lines in path order; consolidation is in key order
C8_OutputOrder ==
  (script = "recursive" /\ pc \in {"collected", "volumes", "done"}) =>
    /\ DOMAIN volume_data = ExpectedKeys
    /\ \A k \in ExpectedKeys : volume_data[k] = ExpectedVolume(k)
    /\ (pc = "done" /\ ~CREATE_FILE_PER_VOLUME /\ ExpectedKeys # {}) =>
         /\ all_japanese_lines = ConcatVolumes(Ascending(ExpectedKeys))
         /\ writeLog[1].ok =>
              outfiles = (OUTPUT_FILENAME :> Chunks(all_japanese_lines))

C8_Witness ==
  /\ script = "recursive" /\ ~CREATE_FILE_PER_VOLUME
  /\ pc = "done"
  /\ DOMAIN volume_data = {<<97>>, <<118>>}
  /\ \E s \in DOMAIN tree : s.dir = <<<<117>>, <<118>>>>
  /\ writeLog[1].ok

(***************************************************************************)
(* C9.  A file whose reading or walking raises something other than a      *)
(* decode error.                                                           *)
(***************************************************************************)
\* C9 as claimed: such a file gets a warning, the loop goes on, and the aggregate
\* is left as it was
C9_FailedFileAddsNothing ==
  [][(AtCandidate /\ RaisesOther(tree[Current])) =>
       /\ warnings' = Append(warnings, [path |-> json_filepaths[idx], kind |-> "error"])
       /\ idx' = idx + 1 /\ pc' \in {"loop", "collected"}
       /\ volume_data' = volume_data
       /\ all_japanese_lines' = all_japanese_lines]_vars

\* C9 amended: the Japanese lines that precede the failing element stay in the
\* aggregate, and nothing that follows it is added
C9_FailedFileKeepsPrefix ==
  [][(AtCandidate /\ RaisesOther(tree[Current])) =>
       /\ warnings' = Append(warnings, [path |-> json_filepaths[idx], kind |-> "error"])
       /\ idx' = idx + 1 /\ pc' \in {"loop", "collected"}
       /\ Appends(IF script = "flat" THEN <<>> ELSE ExpectedKey(Current),
                  Retained(tree[Current]))]_vars

C9_Witness ==
  /\ pc = "done"
  /\ Len(opened) = 2
  /\ warnings = <<[path |-> opened[1], kind |-> "error"]>>
  /\ tree[Resolve(opened[1])] = DocNumberInLines
  /\ tree[Resolve(opened[2])] = DocNoLines
  /\ \E f \in DOMAIN outfiles : outfiles[f] = Chunks(<<LineKo, LineHKa>>)

(***************************************************************************)
(* C10.  Per-volume mode: a failed write does not stop the other volumes.  *)
(***************************************************************************)
\* C10: every volume's file is attempted, in key order, whatever failed before;
\* a file whose write succeeded holds its volume's lines, a newline after each
C10_WriteFailureIsolated ==
  (script = "recursive" /\ CREATE_FILE_PER_VOLUME /\ pc \in {"volumes", "done"}) =>
    LET keys == Ascending(DOMAIN volume_data)
        n == Len(keys) - Len(pending)
    IN /\ Len(writeLog) = n
       /\ pc = "done" => n = Len(keys)
       /\ \A i \in 1..n :
            /\ writeLog[i].file = keys[i] \o DotTxt
            /\ writeLog[i].ok =>
                 /\ writeLog[i].file \in DOMAIN outfiles
                 /\ outfiles[writeLog[i].file] =
                      [j \in DOMAIN volume_data[keys[i]] |->
                         volume_data[keys[i]][j].cps \o <<10>>]

C10_Witness ==
  /\ script = "recursive" /\ CREATE_FILE_PER_VOLUME
  /\ pc = "done"
  /\ Len(writeLog) = 2
  /\ ~writeLog[1].ok
  /\ writeLog[2].ok
  /\ Len(outfiles[writeLog[2].file]) = 3

====
